---- MODULE Spec2Model ----
(***************************************************************************)
(* Model of hal/src/buffer.rs: the Usage and Access flag sets, the         *)
(* ViewError display, and complete_requirements, which widens the          *)
(* alignment a device reports for a buffer that takes part in copies.      *)
(***************************************************************************)
EXTENDS Integers, Sequences, FiniteSets, TLC

VARIABLES
    device,        \* the Device stub: what its two queries answer
    usage,         \* complete_requirements' argument `usage`
    pc,            \* position inside complete_requirements
    requirements,  \* the local `requirements`
    limits,        \* the local `limits`
    calls,         \* device operations performed by the current call, in order
    result,        \* the value the current call returned
    prev,          \* the previous call: its usage, device and result
    kind,          \* which flag set `flags` is a value of
    flags,         \* a bitflags value (its `bits`)
    named,         \* the names of the flags put into `flags`
    answer,        \* what can_transfer() last returned for `flags`
    err,           \* a ViewError
    out            \* the text written to the Formatter

vars == <<device, usage, pc, requirements, limits, calls, result, prev,
          kind, flags, named, answer, err, out>>

callVars == <<device, usage, pc, requirements, limits, calls, result, prev>>
flagVars == <<kind, flags, named, answer>>
showVars == <<err, out>>

None == [none |-> TRUE]

-----------------------------------------------------------------------------
(* Bounds *)

\* device alignments and copy-offset limits are drawn from 0..MaxAlign
MaxAlign == 4
\* the usages passed in are built from the first PoolBits flags of UsagePool
PoolBits == 4
\* operands of union and intersection hold at most MaxOperandBits named flags
MaxOperandBits == 2
\* buffer offsets are drawn from 0..MaxOffset
MaxOffset == 32

-----------------------------------------------------------------------------
(* Fixed-width integers *)

U16 == 65536

RECURSIVE BitAnd(_, _)
\* bits & other.bits on u16
BitAnd(a, b) ==
    IF a = 0 \/ b = 0 THEN 0
    ELSE (a % 2) * (b % 2) + 2 * BitAnd(a \div 2, b \div 2)

\* bits | other.bits on u16
BitOr(a, b) == a + b - BitAnd(a, b)

\* !bits on u16
BitNot(a) == (U16 - 1) - a

-----------------------------------------------------------------------------
(* Usage: bitflags over u16 *)

TRANSFER_SRC == 1
TRANSFER_DST == 2
UNIFORM == 4
STORAGE == 8
UNIFORM_TEXEL == 16
STORAGE_TEXEL == 32
INDEX == 64
INDIRECT == 128
VERTEX == 256

UsageNames ==
    <<"TRANSFER_SRC", "TRANSFER_DST", "UNIFORM", "STORAGE", "UNIFORM_TEXEL",
      "STORAGE_TEXEL", "INDEX", "INDIRECT", "VERTEX">>

UsageBitsOverlap(name) ==
    CASE name = "TRANSFER_SRC" -> TRANSFER_SRC
      [] name = "TRANSFER_DST" -> TRANSFER_DST
      [] name = "UNIFORM" -> UNIFORM
      [] name = "STORAGE" -> UNIFORM + STORAGE
      [] name = "UNIFORM_TEXEL" -> UNIFORM_TEXEL
      [] name = "STORAGE_TEXEL" -> STORAGE_TEXEL
      [] name = "INDEX" -> INDEX
      [] name = "INDIRECT" -> INDIRECT
      [] name = "VERTEX" -> VERTEX

UsageBits(name) ==
    CASE name = "TRANSFER_SRC" -> TRANSFER_SRC
      [] name = "TRANSFER_DST" -> TRANSFER_DST
      [] name = "UNIFORM" -> UNIFORM
      [] name = "STORAGE" -> STORAGE
      [] name = "UNIFORM_TEXEL" -> UNIFORM_TEXEL
      [] name = "STORAGE_TEXEL" -> STORAGE_TEXEL
      [] name = "INDEX" -> INDEX
      [] name = "INDIRECT" -> INDIRECT
      [] name = "VERTEX" -> VERTEX

-----------------------------------------------------------------------------
(* Access: bitflags over u16 *)

TRANSFER_READ == 1
TRANSFER_WRITE == 2
INDEX_BUFFER_READ == 16
VERTEX_BUFFER_READ == 32
CONSTANT_BUFFER_READ == 64
INDIRECT_COMMAND_READ == 128
SHADER_READ == 256
SHADER_WRITE == 512
HOST_READ == 1024
HOST_WRITE == 2048
MEMORY_READ == 4096
MEMORY_WRITE == 8192

AccessNames ==
    <<"TRANSFER_READ", "TRANSFER_WRITE", "INDEX_BUFFER_READ",
      "VERTEX_BUFFER_READ", "CONSTANT_BUFFER_READ", "INDIRECT_COMMAND_READ",
      "SHADER_READ", "SHADER_WRITE", "HOST_READ", "HOST_WRITE", "MEMORY_READ",
      "MEMORY_WRITE">>

AccessBits(name) ==
    CASE name = "TRANSFER_READ" -> TRANSFER_READ
      [] name = "TRANSFER_WRITE" -> TRANSFER_WRITE
      [] name = "INDEX_BUFFER_READ" -> INDEX_BUFFER_READ
      [] name = "VERTEX_BUFFER_READ" -> VERTEX_BUFFER_READ
      [] name = "CONSTANT_BUFFER_READ" -> CONSTANT_BUFFER_READ
      [] name = "INDIRECT_COMMAND_READ" -> INDIRECT_COMMAND_READ
      [] name = "SHADER_READ" -> SHADER_READ
      [] name = "SHADER_WRITE" -> SHADER_WRITE
      [] name = "HOST_READ" -> HOST_READ
      [] name = "HOST_WRITE" -> HOST_WRITE
      [] name = "MEMORY_READ" -> MEMORY_READ
      [] name = "MEMORY_WRITE" -> MEMORY_WRITE

-----------------------------------------------------------------------------
(* The operations bitflags! generates for both sets *)

Range(s) == {s[i] : i \in 1..Len(s)}

\* the flag names of a set
Names(k) == IF k = "Usage" THEN UsageNames ELSE AccessNames

\* the bits of a named flag of a set
BitsOf(k, name) == IF k = "Usage" THEN UsageBits(name) ELSE AccessBits(name)

RECURSIVE FromNamesUpTo(_, _, _)
FromNamesUpTo(k, S, i) ==
    IF i = 0 THEN 0
    ELSE LET rest == FromNamesUpTo(k, S, i - 1)
         IN  IF Names(k)[i] \in S THEN BitOr(rest, BitsOf(k, Names(k)[i]))
             ELSE rest

\* FLAG_A | FLAG_B | ... for the flags named in S; empty() for none
FromNames(k, S) == FromNamesUpTo(k, S, Len(Names(k)))

\* Flags::all().bits
AllBits(k) == FromNames(k, Range(Names(k)))

\* is_empty
is_empty(v) == v = 0

\* intersects: !(self & other).is_empty()
intersects(v, other) == ~is_empty(BitAnd(v, other))

\* contains: (self & other) == other
contains(v, other) == BitAnd(v, other) = other

\* insert: self.bits |= other.bits
insert(v, other) == BitOr(v, other)

\* remove: self.bits &= !other.bits
remove(v, other) == BitAnd(v, BitNot(other))

\* BitOr for the flag type
union(v, other) == BitOr(v, other)

\* BitAnd for the flag type
intersection(v, other) == BitAnd(v, other)

can_transferSrcOnly(u) == intersects(u, TRANSFER_SRC)

\* Usage::can_transfer
can_transfer(u) == intersects(u, BitOr(TRANSFER_SRC, TRANSFER_DST))

-----------------------------------------------------------------------------
(* The Device collaborator and memory::Requirements *)

\* a device answer used by the documented scenarios: {256, 4, 0b11}, limit 16
ScenarioDevice ==
    [requirements |-> [size |-> 256, alignment |-> 4, type_mask |-> 3],
     limits |-> [min_buffer_copy_offset_alignment |-> 16]]

\* size and memory-type mask; opaque to complete_requirements
Shapes == {[size |-> 256, type_mask |-> 3], [size |-> 64, type_mask |-> 1]}

\* the devices of the model: every pair of answers within the bounds
Devices ==
    {[requirements |-> [size |-> sh.size, alignment |-> a,
                        type_mask |-> sh.type_mask],
      limits |-> [min_buffer_copy_offset_alignment |-> l]] :
        sh \in Shapes, a \in 0..MaxAlign, l \in 0..MaxAlign}
    \cup {ScenarioDevice}

\* the order in which the flags enter the usages passed in
UsagePool ==
    <<"TRANSFER_SRC", "VERTEX", "TRANSFER_DST", "INDEX", "UNIFORM", "STORAGE",
      "UNIFORM_TEXEL", "STORAGE_TEXEL", "INDIRECT">>

\* the usages passed to complete_requirements
UsageInputs ==
    {FromNames("Usage", S) :
        S \in SUBSET {UsagePool[i] : i \in 1..PoolBits}}

\* device.get_buffer_requirements(buffer)
get_buffer_requirements(d) == d.requirements

\* device.get_limits()
get_limits(d) == d.limits

\* `as u64` on the limit: a widening cast, which keeps the value
AsU64(x) == x

MaxAsMin(a, b) == IF a <= b THEN a ELSE b

MaxAsSum(a, b) == a + b

MaxAsFirst(a, b) == a

\* std::cmp::max
Max(a, b) == IF b >= a THEN b ELSE a

-----------------------------------------------------------------------------
(* complete_requirements, one step per statement *)

\* what is kept of a finished call: its inputs, its value, and whether the
\* call after it was handed that value's alignment as the base alignment
CallOf(u, d, r, fed) == [usage |-> u, device |-> d, result |-> r, fed |-> fed]

\* a caller invokes complete_requirements(device, buffer, u)
Call(u) ==
    /\ pc \in {"idle", "returned"}
    /\ usage' = u
    /\ pc' = "entry"
    /\ prev' = IF pc = "returned"
               THEN CallOf(usage, device, result, FALSE)
               ELSE prev
    /\ requirements' = None
    /\ limits' = None
    /\ calls' = <<>>
    /\ result' = None
    /\ UNCHANGED device

\* a caller invokes it again, same usage, against a device that now reports
\* the alignment the last call returned
FeedBack ==
    /\ pc = "returned"
    /\ device' = [device EXCEPT !.requirements.alignment = result.alignment]
    /\ pc' = "entry"
    /\ prev' = CallOf(usage, device, result, TRUE)
    /\ requirements' = None
    /\ limits' = None
    /\ calls' = <<>>
    /\ result' = None
    /\ UNCHANGED usage

\* let mut requirements = device.get_buffer_requirements(buffer);
GetBufferRequirements ==
    /\ pc = "entry"
    /\ requirements' = get_buffer_requirements(device)
    /\ calls' = Append(calls, "get_buffer_requirements")
    /\ pc' = "test"
    /\ UNCHANGED <<device, usage, limits, result, prev>>

GetLimitsAlways ==
    /\ pc = "test"
    /\ limits' = get_limits(device)
    /\ calls' = Append(calls, "get_limits")
    /\ pc' = "widen"
    /\ UNCHANGED <<device, usage, requirements, result, prev>>

\* if usage.can_transfer() { let limits = device.get_limits();
GetLimits ==
    /\ pc = "test"
    /\ can_transfer(usage)
    /\ limits' = get_limits(device)
    /\ calls' = Append(calls, "get_limits")
    /\ pc' = "widen"
    /\ UNCHANGED <<device, usage, requirements, result, prev>>

SetAlignmentAsSize ==
    /\ pc = "widen"
    /\ requirements' =
         [requirements EXCEPT
            !.size = Max(AsU64(limits.min_buffer_copy_offset_alignment),
                         requirements.alignment)]
    /\ pc' = "return"
    /\ UNCHANGED <<device, usage, limits, calls, result, prev>>

\* requirements.alignment = max(limits.min_buffer_copy_offset_alignment as u64,
\*                              requirements.alignment); }
SetAlignment ==
    /\ pc = "widen"
    /\ requirements' =
         [requirements EXCEPT
            !.alignment = Max(AsU64(limits.min_buffer_copy_offset_alignment),
                              requirements.alignment)]
    /\ pc' = "return"
    /\ UNCHANGED <<device, usage, limits, calls, result, prev>>

\* requirements  (the function's value; reached past the `if` either way)
Return ==
    /\ \/ pc = "return"
       \/ pc = "test" /\ ~can_transfer(usage)
    /\ result' = requirements
    /\ pc' = "returned"
    /\ UNCHANGED <<device, usage, requirements, limits, calls, prev>>

\* the steps inside a call
Step == GetBufferRequirements \/ GetLimits \/ SetAlignment \/ Return

FlagsIdle == kind = "Usage" /\ flags = 0 /\ named = {} /\ answer = None
ShowIdle == err = None /\ out = ""

Init ==
    /\ device \in Devices
    /\ usage = 0
    /\ pc = "idle"
    /\ requirements = None
    /\ limits = None
    /\ calls = <<>>
    /\ result = None
    /\ prev = None
    /\ FlagsIdle
    /\ ShowIdle

Next ==
    \/ \E u \in UsageInputs : Call(u) /\ UNCHANGED <<flagVars, showVars>>
    \/ FeedBack /\ UNCHANGED <<flagVars, showVars>>
    \/ GetBufferRequirements /\ UNCHANGED <<flagVars, showVars>>
    \/ GetLimits /\ UNCHANGED <<flagVars, showVars>>
    \/ SetAlignment /\ UNCHANGED <<flagVars, showVars>>
    \/ Return /\ UNCHANGED <<flagVars, showVars>>

Spec == Init /\ [][Next]_vars

-----------------------------------------------------------------------------
(* Values of the flag sets, built with the generated operations *)

\* the operands of union and intersection
Operands(k) ==
    {S \in SUBSET Range(Names(k)) : Cardinality(S) <= MaxOperandBits}

\* flags.insert(FLAG)
Insert(n) ==
    /\ flags' = insert(flags, BitsOf(kind, n))
    /\ named' = named \cup {n}
    /\ answer' = None
    /\ UNCHANGED kind

\* flags.remove(FLAG)
Remove(n) ==
    /\ flags' = remove(flags, BitsOf(kind, n))
    /\ named' = named \ {n}
    /\ answer' = None
    /\ UNCHANGED kind

\* flags | other
Union(S) ==
    /\ flags' = union(flags, FromNames(kind, S))
    /\ named' = named \cup S
    /\ answer' = None
    /\ UNCHANGED kind

\* flags & other
Intersection(S) ==
    /\ flags' = intersection(flags, FromNames(kind, S))
    /\ named' = named \cap S
    /\ answer' = None
    /\ UNCHANGED kind

\* usage.can_transfer()
CanTransfer ==
    /\ kind = "Usage"
    /\ answer' = [value |-> can_transfer(flags)]
    /\ UNCHANGED <<kind, flags, named>>

CallIdle ==
    /\ device = ScenarioDevice
    /\ usage = 0
    /\ pc = "idle"
    /\ requirements = None
    /\ limits = None
    /\ calls = <<>>
    /\ result = None
    /\ prev = None

InitFlags ==
    /\ kind \in {"Usage", "Access"}
    /\ flags = 0
    /\ named = {}
    /\ answer = None
    /\ CallIdle
    /\ ShowIdle

NextFlags ==
    \/ \E n \in Range(Names(kind)) : Insert(n) /\ UNCHANGED <<callVars, showVars>>
    \/ \E n \in Range(Names(kind)) : Remove(n) /\ UNCHANGED <<callVars, showVars>>
    \/ \E S \in Operands(kind) : Union(S) /\ UNCHANGED <<callVars, showVars>>
    \/ \E S \in Operands(kind) : Intersection(S) /\ UNCHANGED <<callVars, showVars>>
    \/ CanTransfer /\ UNCHANGED <<callVars, showVars>>

SpecFlags == InitFlags /\ [][NextFlags]_vars

-----------------------------------------------------------------------------
(* ViewError and its Display *)

Unsupported == [tag |-> "Unsupported"]
UsageError(u) == [tag |-> "Usage", usage |-> u]

\* every ViewError over the nine named Usage flags
ViewErrors ==
    {Unsupported} \cup
    {UsageError(FromNames("Usage", S)) : S \in SUBSET Range(UsageNames)}

RECURSIVE DebugUpTo(_, _)
\* the names of the flags u contains among the first i, joined by " | "
DebugUpTo(u, i) ==
    IF i = 0 THEN ""
    ELSE LET rest == DebugUpTo(u, i - 1)
         IN  IF contains(u, UsageBits(UsageNames[i]))
             THEN (IF rest = "" THEN "" ELSE rest \o " | ") \o UsageNames[i]
             ELSE rest

\* {:?} of a Usage: the generated Debug
DebugUsage(u) ==
    IF is_empty(u) THEN "(empty)" ELSE DebugUpTo(u, Len(UsageNames))

\* Error::description
description(e) ==
    IF e.tag = "Usage"
    THEN "The required usage flag is not present in the image"
    ELSE "The backend refused for some reason"

fmtNoUsage(e) == description(e) \o ": "

\* Display::fmt: what it writes
fmt(e) ==
    IF e.tag = "Usage"
    THEN description(e) \o ": " \o DebugUsage(e.usage)
    ELSE description(e)

\* an error value is produced
Raise(e) ==
    /\ err' = e
    /\ out' = ""

\* the error is displayed into an empty Formatter
Display ==
    /\ err # None
    /\ out = ""
    /\ out' = out \o fmt(err)
    /\ UNCHANGED err

InitShow ==
    /\ err = None
    /\ out = ""
    /\ CallIdle
    /\ FlagsIdle

NextShow ==
    \/ \E e \in ViewErrors : Raise(e) /\ UNCHANGED <<callVars, flagVars>>
    \/ Display /\ UNCHANGED <<callVars, flagVars>>

SpecShow == InitShow /\ [][NextShow]_vars

-----------------------------------------------------------------------------
(* Properties of complete_requirements *)

\* the base alignment A the device reports and its copy-offset limit L
BaseAlignment == device.requirements.alignment
CopyLimit == device.limits.min_buffer_copy_offset_alignment

\* u holds TRANSFER_SRC or TRANSFER_DST
HasTransferBit(u) == contains(u, TRANSFER_SRC) \/ contains(u, TRANSFER_DST)

Larger(a, b) == IF a >= b THEN a ELSE b

\* C1: for base alignment A >= 1 and limit L >= 1 the returned alignment is
\* max(A, L) when the usage holds TRANSFER_SRC or TRANSFER_DST, and A otherwise.
C1_AlignmentIsMaxOrBase ==
    (pc = "returned" /\ BaseAlignment >= 1 /\ CopyLimit >= 1) =>
        result.alignment =
            IF HasTransferBit(usage) THEN Larger(BaseAlignment, CopyLimit)
            ELSE BaseAlignment

\* a call with TRANSFER_DST alone returned the limit, larger than the base
C1_Witness ==
    /\ pc = "returned"
    /\ usage = TRANSFER_DST
    /\ BaseAlignment >= 1
    /\ CopyLimit > BaseAlignment
    /\ result.alignment = CopyLimit

\* C2: the returned alignment is never below the alignment the device
\* reported, whatever the limit is (below the base, or 0).
C2_NeverNarrowed ==
    pc = "returned" => result.alignment >= BaseAlignment

\* a transfer call returned with a limit of 0 under a positive base
C2_Witness ==
    /\ pc = "returned"
    /\ can_transfer(usage)
    /\ CopyLimit = 0
    /\ BaseAlignment > 0
    /\ "get_limits" \in Range(calls)

\* every offset aligned to the returned alignment is aligned to the base
\* alignment and, for a usage that can transfer, to the copy-offset limit
Sufficient ==
    \A off \in 0..MaxOffset :
        off % result.alignment = 0 =>
            /\ off % BaseAlignment = 0
            /\ can_transfer(usage) => off % CopyLimit = 0

\* C3 as claimed: for all A, L >= 1 the returned alignment is sufficient for
\* both constraints.
C3_SufficientForAll ==
    (pc = "returned" /\ BaseAlignment >= 1 /\ CopyLimit >= 1) => Sufficient

\* C3 amended: for A, L >= 1 the returned alignment is sufficient for both
\* constraints when the usage cannot transfer or one of A, L divides the other
\* (as when both are powers of two).
C3_SufficientWhenOneDivides ==
    (/\ pc = "returned"
     /\ BaseAlignment >= 1
     /\ CopyLimit >= 1
     /\ \/ ~can_transfer(usage)
        \/ BaseAlignment % CopyLimit = 0
        \/ CopyLimit % BaseAlignment = 0) => Sufficient

\* a transfer call returned 4 for base 2 and limit 4
C3_Witness ==
    /\ pc = "returned"
    /\ can_transfer(usage)
    /\ BaseAlignment = 2
    /\ CopyLimit = 4
    /\ result.alignment = 4

\* C4: the returned size and memory-type mask are the ones the device
\* reported; {256, 4, 0b11} with limit 16 gives {256, 16, 0b11} for
\* TRANSFER_SRC | VERTEX and {256, 4, 0b11} for VERTEX alone.
C4_OnlyAlignmentChanges ==
    pc = "returned" =>
        /\ result.size = device.requirements.size
        /\ result.type_mask = device.requirements.type_mask
        /\ (device = ScenarioDevice /\ usage = BitOr(TRANSFER_SRC, VERTEX)) =>
              result = [size |-> 256, alignment |-> 16, type_mask |-> 3]
        /\ (device = ScenarioDevice /\ usage = VERTEX) =>
              result = [size |-> 256, alignment |-> 4, type_mask |-> 3]

\* the first scenario has run: the alignment was widened from 4 to 16
C4_Witness ==
    /\ pc = "returned"
    /\ device = ScenarioDevice
    /\ usage = BitOr(TRANSFER_SRC, VERTEX)
    /\ result.alignment = 16

\* the device operations a finished call with usage u has performed
ExpectedCalls(u) ==
    IF HasTransferBit(u) THEN <<"get_buffer_requirements", "get_limits">>
    ELSE <<"get_buffer_requirements">>

\* C6: a call performs get_buffer_requirements once and first, then get_limits
\* once exactly when the usage can transfer, nothing else, and it always goes
\* on to return a value.
C6_QueryOrder ==
    /\ pc \in {"idle", "entry"} => calls = <<>>
    /\ pc = "test" => calls = <<"get_buffer_requirements">>
    /\ pc \in {"widen", "return"} =>
          /\ calls = <<"get_buffer_requirements", "get_limits">>
          /\ HasTransferBit(usage)
    /\ pc = "returned" => (calls = ExpectedCalls(usage) /\ result # None)
    /\ pc \in {"entry", "test", "widen", "return"} => ENABLED Step

\* a call without transfer flags returned after the one query
C6_Witness ==
    /\ pc = "returned"
    /\ usage = VERTEX
    /\ calls = <<"get_buffer_requirements">>

\* C7: a second call with the same device and usage returns the same
\* Requirements, and a call handed the first result's alignment as the base
\* alignment returns that alignment again.
C7_Idempotent ==
    (pc = "returned" /\ prev # None) =>
        /\ (prev.usage = usage /\ prev.device = device) => result = prev.result
        /\ prev.fed => result.alignment = prev.result.alignment

\* the alignment a transfer call widened was fed back and came back unchanged
C7_Witness ==
    /\ pc = "returned"
    /\ prev # None
    /\ prev.fed
    /\ can_transfer(usage)
    /\ prev.result.alignment > prev.device.requirements.alignment
    /\ BaseAlignment = prev.result.alignment

\* C10: with the device's answers fixed, two usages with the same
\* can_transfer() get identical Requirements, and a usage that holds all the
\* flags of another gets an alignment at least as large.
C10_OnlyThroughCanTransfer ==
    (pc = "returned" /\ prev # None /\ prev.device = device) =>
        /\ can_transfer(prev.usage) = can_transfer(usage) =>
              result = prev.result
        /\ contains(usage, prev.usage) =>
              prev.result.alignment <= result.alignment

\* VERTEX, then VERTEX | TRANSFER_SRC on the same device: the alignment grew
C10_Witness ==
    /\ pc = "returned"
    /\ prev # None
    /\ prev.device = device
    /\ prev.usage = VERTEX
    /\ usage = BitOr(VERTEX, TRANSFER_SRC)
    /\ prev.result.alignment < result.alignment

-----------------------------------------------------------------------------
(* Properties of the flag sets *)

\* the single bits of a u16
SingleBits == {2 ^ i : i \in 0..15}

\* C5: can_transfer() is true exactly for the Usage values that hold
\* TRANSFER_SRC or TRANSFER_DST; false for the empty set and for every
\* combination of the other seven flags.
C5_CanTransferIffTransferBit ==
    (kind = "Usage" /\ answer # None) =>
        answer.value = (named \cap {"TRANSFER_SRC", "TRANSFER_DST"} # {})

\* can_transfer() answered for TRANSFER_DST | VERTEX
C5_Witness ==
    /\ kind = "Usage"
    /\ named = {"TRANSFER_DST", "VERTEX"}
    /\ answer = [value |-> TRUE]

\* C8: the named constants of a set are pairwise distinct single bits of a
\* u16 (nine for Usage, twelve for Access); a value built by setting, clearing,
\* union and intersection holds a named flag exactly when that flag was put in
\* and not taken out, so no operation on one flag touches another, and it
\* holds no bit outside the named ones.
C8_BitsIndependentAndClosed ==
    /\ Len(UsageNames) = 9 /\ Len(AccessNames) = 12
    /\ \A n \in Range(Names(kind)) : BitsOf(kind, n) \in SingleBits
    /\ \A n, m \in Range(Names(kind)) :
          n # m => BitsOf(kind, n) # BitsOf(kind, m)
    /\ \A n \in Range(Names(kind)) :
          contains(flags, BitsOf(kind, n)) <=> n \in named
    /\ BitAnd(flags, BitNot(AllBits(kind))) = 0

\* UNIFORM, STORAGE and VERTEX were set and UNIFORM cleared again
C8_Witness ==
    /\ kind = "Usage"
    /\ named = {"STORAGE", "VERTEX"}
    /\ flags = 264

-----------------------------------------------------------------------------
(* Properties of the ViewError display *)

\* the first n characters of s
Prefix(s, n) == IF Len(s) < n THEN s ELSE SubSeq(s, 1, n)

\* C9: Usage(u) displays as "The required usage flag is not present in the
\* image", then ": ", then a representation of u; Unsupported displays as
\* "The backend refused for some reason" and nothing more; the display starts
\* with the variant's description().
C9_DisplayText ==
    (err # None /\ out # "") =>
        /\ err.tag = "Usage" =>
              out = "The required usage flag is not present in the image"
                    \o ": " \o DebugUsage(err.usage)
        /\ (err.tag = "Usage" /\ err.usage = VERTEX) =>
              out = "The required usage flag is not present in the image: VERTEX"
        /\ err.tag = "Unsupported" =>
              out = "The backend refused for some reason"
        /\ Prefix(out, Len(description(err))) = description(err)

\* ViewError::Usage(TRANSFER_SRC | VERTEX) was displayed
C9_Witness ==
    /\ err = UsageError(257)
    /\ out = "The required usage flag is not present in the image: TRANSFER_SRC | VERTEX"

====
